---- MODULE Spec2Model ----
(***************************************************************************)
(* screen-pipe: the recording-and-indexing pipeline of screenpipe-server.  *)
(*                                                                         *)
(*   core.rs    record_video  (vision loop, chunk-start callback)          *)
(*              record_audio  (per-device worker supervisor)               *)
(*              process_audio_result                                       *)
(*   server.rs  the HTTP handlers over AppState                            *)
(*                                                                         *)
(* Spec is the audio side with the device handlers, SpecVideo the vision   *)
(* side with the recording handlers, SpecSystem both together.             *)
(***************************************************************************)
EXTENDS Integers, Sequences, FiniteSets, TLC

VARIABLES
    \* ---- AppState (server.rs:36-42) ----
    audio_devices_control,  \* SegQueue<(AudioDevice, DeviceControl)>, FIFO
    devices_status,         \* HashMap<AudioDevice, DeviceControl>, fixed at Server::start
    vision_control,         \* Arc<AtomicBool>: the recording_enabled flag
    \* ---- record_audio (core.rs:194-315) ----
    handles,                \* HashMap<String, JoinHandle<()>>: device_id -> task (0: no entry)
    tasks,                  \* every per-device task ever spawned, by task id
    sup_pc,                 \* where the supervisor loop stands
    whisper_in,             \* AudioInput channel to the transcription worker
    whisper_out,            \* TranscriptionResult channel back to record_audio
    clock,                  \* Utc::now() as read for chunk file names
    \* ---- Store, audio tables ----
    audio_chunks,           \* rows of audio_chunks, id = index
    audio_transcriptions,   \* rows of audio_transcriptions
    \* ---- record_video (core.rs:119-192) and VideoCapture ----
    ocr_frame_queue,        \* VideoCapture.ocr_frame_queue: Mutex<VecDeque<OcrFrame>>
    chunk_tasks,            \* insert_video_chunk tasks spawned by new_chunk_callback, not yet run
    cur_chunk,              \* the chunk file VideoCapture is writing (0: none yet)
    video_pc,               \* where the record_video loop stands
    cur_frame,              \* the OcrFrame record_video holds after pop_front
    cur_frame_id,           \* the frame_id insert_frame returned for it
    \* ---- Store, vision tables ----
    video_chunks,           \* rows of video_chunks, id = index
    frames,                 \* rows of frames, id = index
    ocr_texts,              \* rows of ocr_text
    \* ---- a /search request between its two Store calls ----
    searching,              \* the request and the results of its search call (NoSearch: none)
    \* ---- time ----
    now,                    \* Utc::now(), in seconds since Server::start
    \* ---- what the step just taken did, as seen from outside ----
    resp,                   \* the request it answered and the response sent (NoResp: none)
    calls,                  \* the Store calls it made, in order, with their outcome
    popped,                 \* the command it popped from the control queue (NoCmd: none)
    \* ---- history ----
    requests,               \* number of HTTP requests answered so far
    captures,               \* number of chunk files started and frames captured so far
    db_calls,               \* number of inserts made on the Store directly, as its tests make them
    inflightAtStop,         \* chunk paths that were being recorded when a stop was processed
    finished                \* chunk paths in the order record_and_transcribe returned Ok for them

audioVars == <<audio_devices_control, handles, tasks, sup_pc, whisper_in, whisper_out,
               clock, audio_chunks, audio_transcriptions, inflightAtStop, finished>>

videoVars == <<ocr_frame_queue, chunk_tasks, cur_chunk, video_pc, cur_frame, cur_frame_id,
               video_chunks, frames, ocr_texts, captures>>

vars == <<devices_status, vision_control, searching, now, resp, calls, popped, requests,
          db_calls, audioVars, videoVars>>

\* ---------------------------------------------------------------- bounds
\* The system is explored up to this many events from outside it: HTTP requests
\* answered, audio chunk files started, video chunk files started, frames
\* captured and inserts made on the Store directly.
MaxEvents == 4

Budget == requests + clock + captures + db_calls < MaxEvents

\* ---------------------------------------------------------------- devices
\* The device_id strings a request may carry; the last one does not parse.
DeviceIds == {"mic (input)", "spk (output)", "mic"}

\* AudioDevice::from_name: a name with its "(input)" / "(output)" suffix parses
\* into a device, anything else is an error.
from_name(id) ==
    CASE id = "mic (input)"  -> [ok |-> TRUE, name |-> "mic", device_type |-> "input"]
      [] id = "spk (output)" -> [ok |-> TRUE, name |-> "spk", device_type |-> "output"]
      [] OTHER               -> [ok |-> FALSE, name |-> "", device_type |-> ""]

AudioDevice(id) == [name |-> from_name(id).name, device_type |-> from_name(id).device_type]

AudioDevices == {AudioDevice(id) : id \in {i \in DeviceIds : from_name(i).ok}}

\* impl Display for AudioDevice: "<name> (<type>)".
to_string(dev) ==
    CASE dev.name = "mic" /\ dev.device_type = "input"  -> "mic (input)"
      [] dev.name = "spk" /\ dev.device_type = "output" -> "spk (output)"
      [] OTHER -> "?"

DeviceKeys == {to_string(d) : d \in AudioDevices}

\* ---------------------------------------------------------------- helpers
\* The tasks of a device that are alive: spawned and neither returned nor aborted.
Running(key) == {t \in 1..Len(tasks) :
                    tasks[t].device = key /\ tasks[t].state \in {"ready", "recording"}}

\* JoinHandle::is_finished
is_finished(t) == tasks[t].state \in {"finished", "aborted"}

\* ---------------------------------------------------------------- initial state
DeviceControl(running) == [is_running |-> running, is_paused |-> FALSE]

\* The device tables Server::start may be given: any subset of the devices, each
\* with either value of is_running.
DeviceTables ==
    UNION {[ds -> {DeviceControl(TRUE), DeviceControl(FALSE)}] : ds \in SUBSET AudioDevices}

NoFrame == [app_name |-> "", text |-> "", chunk |-> 0, seq |-> 0]
NoResp == [req |-> "none", device_id |-> "", status |-> 0]
NoCmd == [key |-> "", is_running |-> FALSE]
NoSearch == [active |-> FALSE]

Init ==
    /\ audio_devices_control = <<>>
    /\ devices_status \in DeviceTables
    /\ vision_control = TRUE
    /\ handles = [k \in DeviceKeys |-> 0]
    /\ tasks = <<>>
    /\ sup_pc = "control"
    /\ whisper_in = <<>>
    /\ whisper_out = <<>>
    /\ clock = 0
    /\ audio_chunks = <<>>
    /\ audio_transcriptions = {}
    /\ ocr_frame_queue = <<>>
    /\ chunk_tasks = {}
    /\ cur_chunk = 0
    /\ video_pc = "top"
    /\ cur_frame = NoFrame
    /\ cur_frame_id = 0
    /\ video_chunks = <<>>
    /\ frames = <<>>
    /\ ocr_texts = {}
    /\ now = 0
    /\ searching = NoSearch
    /\ resp = NoResp
    /\ calls = <<>>
    /\ popped = NoCmd
    /\ requests = 0
    /\ captures = 0
    /\ db_calls = 0
    /\ inflightAtStop = {}
    /\ finished = <<>>

\* ---------------------------------------------------------------- control surface
\* Every handler answers one request; none of those below calls the Store.
Answer(response) ==
    /\ Budget
    /\ requests' = requests + 1
    /\ resp' = response
    /\ calls' = <<>>
    /\ popped' = NoCmd

\* What the device handlers leave alone.
DeviceHandlerFrame ==
    UNCHANGED <<devices_status, vision_control, handles, tasks, sup_pc, whisper_in,
                whisper_out, clock, audio_chunks, audio_transcriptions, inflightAtStop,
                finished, now, db_calls, searching, videoVars>>

\* The responses of the device handlers, with the request they answer.
BadRequest(req, id) ==
    [req |-> req, device_id |-> id, status |-> 400, error |-> "Invalid device ID"]
\* A handler that answers for an unknown device as if it were a stopped one.
NotFoundAsStopped(req, id) ==
    [req |-> req, device_id |-> id, status |-> 200, id |-> id, is_running |-> FALSE]
NotFound(req, id) ==
    [req |-> req, device_id |-> id, status |-> 404, error |-> "Device not found"]
DeviceStatus(req, id, running) ==
    [req |-> req, device_id |-> id, status |-> 200, id |-> id, is_running |-> running]

\* A handler that pushes the command before it looks at the outcome of parsing.
PushControlBeforeParse(req, id, running) ==
    /\ Answer(IF from_name(id).ok THEN DeviceStatus(req, id, running)
              ELSE BadRequest(req, id))
    /\ audio_devices_control' =
           Append(audio_devices_control,
                  [device |-> AudioDevice(id), control |-> DeviceControl(running)])

\* The body shared by start_device and stop_device: parse the id, push the
\* command, answer with the requested state.
PushControl(req, id, running) ==
    IF ~from_name(id).ok
    THEN /\ Answer(BadRequest(req, id))
         /\ UNCHANGED audio_devices_control
    ELSE /\ Answer(DeviceStatus(req, id, running))
         /\ audio_devices_control' =
                Append(audio_devices_control,
                       [device |-> AudioDevice(id), control |-> DeviceControl(running)])

start_device(id) == PushControl("start_device", id, TRUE) /\ DeviceHandlerFrame

stop_device(id) == PushControl("stop_device", id, FALSE) /\ DeviceHandlerFrame

get_device_status(id) ==
    /\ Answer(IF ~from_name(id).ok THEN BadRequest("get_device_status", id)
              ELSE IF AudioDevice(id) \in DOMAIN devices_status
                   THEN DeviceStatus("get_device_status", id,
                                     devices_status[AudioDevice(id)].is_running)
                   ELSE NotFound("get_device_status", id))
    /\ UNCHANGED audio_devices_control
    /\ DeviceHandlerFrame

\* The list get_devices answers with.
DeviceList ==
    {[id |-> to_string(d), is_running |-> devices_status[d].is_running] :
        d \in DOMAIN devices_status}

get_devices ==
    /\ Answer([req |-> "get_devices", device_id |-> "", status |-> 200,
               list |-> DeviceList])
    /\ UNCHANGED audio_devices_control
    /\ DeviceHandlerFrame

\* What the recording handlers leave alone.
VisionHandlerFrame ==
    UNCHANGED <<devices_status, now, db_calls, searching, audioVars, videoVars>>

RecordingStatus(req, running) ==
    [req |-> req, device_id |-> "", status |-> 200, is_running |-> running]

\* A handler that also spawns record_video again when the loop has returned.
start_recording_respawns ==
    /\ Answer(RecordingStatus("start_recording", TRUE))
    /\ vision_control' = TRUE
    /\ video_pc' = IF video_pc = "done" THEN "top" ELSE video_pc
    /\ UNCHANGED <<devices_status, now, db_calls, searching, audioVars, ocr_frame_queue,
                   chunk_tasks, cur_chunk, cur_frame, cur_frame_id, video_chunks, frames,
                   ocr_texts, captures>>

start_recording ==
    /\ Answer(RecordingStatus("start_recording", TRUE))
    /\ vision_control' = TRUE
    /\ VisionHandlerFrame

\* A handler that flips the flag instead of clearing it.
stop_recording_toggles ==
    /\ Answer(RecordingStatus("stop_recording", ~vision_control))
    /\ vision_control' = ~vision_control
    /\ VisionHandlerFrame

stop_recording ==
    /\ Answer(RecordingStatus("stop_recording", FALSE))
    /\ vision_control' = FALSE
    /\ VisionHandlerFrame

\* A status handler that turns recording on as it answers.
get_recording_status_arms ==
    /\ Answer(RecordingStatus("get_recording_status", vision_control))
    /\ vision_control' = TRUE
    /\ VisionHandlerFrame

get_recording_status ==
    /\ Answer(RecordingStatus("get_recording_status", vision_control))
    /\ UNCHANGED vision_control
    /\ VisionHandlerFrame

\* ---------------------------------------------------------------- record_audio
\* What the tasks of the audio side leave alone; they answer no request.
AudioFrame ==
    /\ resp' = NoResp
    /\ UNCHANGED <<devices_status, vision_control, now, requests, db_calls, searching,
                   videoVars>>

\* tokio::spawn of the per-device task: it starts at the top of its loop, with
\* its own copy of the command that started it.
NewTask(key, control) ==
    [device |-> key, state |-> "ready", iteration |-> 0, path |-> 0,
     is_running |-> control.is_running, stop_flag |-> FALSE, result |-> "none"]

\* JoinHandle::abort: a live task is cancelled where it awaits, and what it was
\* recording is dropped with it; a task that has returned is left as it is.
Abort(ts, t) ==
    IF ts[t].state \in {"ready", "recording"} THEN [ts EXCEPT ![t].state = "aborted"]
    ELSE ts

\* The tasks after a stop command for key: `if let Some(handle) =
\* handles.remove(&device_id) { handle.abort() }`.
StopTasks(ts, hs, key) == IF hs[key] # 0 THEN Abort(ts, hs[key]) ELSE ts

\* The table after a start command for key: the new task's handle is inserted
\* under device_id, replacing (and so detaching, not aborting) any handle there.
InsertHandle(hs, key, t) == [hs EXCEPT ![key] = t]

\* The chunk paths the live tasks of a device are recording right now.
InFlight(key) ==
    {tasks[t].path : t \in {u \in Running(key) : tasks[u].state = "recording"}}

\* One turn of `while let Some(..) = audio_devices_control.pop()`.
SupPop ==
    /\ sup_pc = "control"
    /\ audio_devices_control # <<>>
    /\ LET cmd == Head(audio_devices_control)
           key == to_string(cmd.device)
       IN  /\ audio_devices_control' = Tail(audio_devices_control)
           /\ popped' = [key |-> key, is_running |-> cmd.control.is_running]
           /\ IF ~cmd.control.is_running
              THEN /\ tasks' = StopTasks(tasks, handles, key)
                   /\ handles' = [handles EXCEPT ![key] = 0]
                   /\ inflightAtStop' = inflightAtStop \cup InFlight(key)
              ELSE /\ tasks' = Append(tasks, NewTask(key, cmd.control))
                   /\ handles' = InsertHandle(handles, key, Len(tasks) + 1)
                   /\ UNCHANGED inflightAtStop
    /\ calls' = <<>>
    /\ UNCHANGED <<sup_pc, whisper_in, whisper_out, clock, audio_chunks,
                   audio_transcriptions, finished>>
    /\ AudioFrame

\* handles.retain(|_, handle| !handle.is_finished())
Retain(hs) == [k \in DOMAIN hs |-> IF hs[k] # 0 /\ is_finished(hs[k]) THEN 0 ELSE hs[k]]

\* The control queue is empty: the pop loop ends and the table is swept.
SupRetain ==
    /\ sup_pc = "control"
    /\ audio_devices_control = <<>>
    /\ handles' = Retain(handles)
    /\ sup_pc' = "recv"
    /\ calls' = <<>>
    /\ UNCHANGED <<audio_devices_control, tasks, whisper_in, whisper_out, clock,
                   audio_chunks, audio_transcriptions, inflightAtStop, finished>>
    /\ popped' = NoCmd
    /\ AudioFrame

cloud_audio == FALSE

\* process_audio_result without its test of result.error.
process_audio_result_ignores_error(result, chunkOk, trOk) ==
    IF result.transcription = "none"
    THEN <<>>
    ELSE <<[op |-> "insert_audio_chunk", file_path |-> result.input.path,
            ok |-> chunkOk]>>
         \o (IF ~chunkOk \/ result.transcription = ""
             THEN <<>>
             ELSE <<[op |-> "insert_audio_transcription",
                     audio_chunk_id |-> Len(audio_chunks) + 1,
                     transcription |-> result.transcription,
                     offset_index |-> 0,
                     engine |-> IF cloud_audio THEN "Deepgram" ELSE "Whisper",
                     ok |-> trOk]>>)

\* A process_audio_result that drops the result of a device whose table entry
\* is gone.
process_audio_result_skips_stopped(result, chunkOk, trOk) ==
    IF result.error \/ result.transcription = "none" \/ handles[result.input.device] = 0
    THEN <<>>
    ELSE <<[op |-> "insert_audio_chunk", file_path |-> result.input.path,
            ok |-> chunkOk]>>
         \o (IF ~chunkOk \/ result.transcription = ""
             THEN <<>>
             ELSE <<[op |-> "insert_audio_transcription",
                     audio_chunk_id |-> Len(audio_chunks) + 1,
                     transcription |-> result.transcription,
                     offset_index |-> 0,
                     engine |-> IF cloud_audio THEN "Deepgram" ELSE "Whisper",
                     ok |-> trOk]>>)

\* The Store calls process_audio_result makes for a result, given what each
\* insert it may reach would answer.
process_audio_result(result, chunkOk, trOk) ==
    IF result.error \/ result.transcription = "none"
    THEN <<>>
    ELSE <<[op |-> "insert_audio_chunk", file_path |-> result.input.path,
            ok |-> chunkOk]>>
         \o (IF ~chunkOk \/ result.transcription = ""
             THEN <<>>
             ELSE <<[op |-> "insert_audio_transcription",
                     audio_chunk_id |-> Len(audio_chunks) + 1,
                     transcription |-> result.transcription,
                     offset_index |-> 0,
                     engine |-> IF cloud_audio THEN "Deepgram" ELSE "Whisper",
                     ok |-> trOk]>>)

\* The audio tables after a sequence of Store calls: each insert that answers
\* Ok adds its row.
ChunksAfter(cs) ==
    IF cs # <<>> /\ cs[1].ok
    THEN Append(audio_chunks, [file_path |-> cs[1].file_path])
    ELSE audio_chunks

TranscriptionsAfter(cs) ==
    IF Len(cs) = 2 /\ cs[2].ok
    THEN audio_transcriptions \cup
            {[audio_chunk_id |-> cs[2].audio_chunk_id,
              transcription |-> cs[2].transcription,
              offset_index |-> cs[2].offset_index, engine |-> cs[2].engine,
              timestamp |-> now]}
    ELSE audio_transcriptions

\* A receiver that takes the newest message of the channel.
try_recv_newest(channel) ==
    [item |-> channel[Len(channel)], rest |-> SubSeq(channel, 1, Len(channel) - 1)]

\* whisper_receiver.try_recv() on a channel that is not empty: the oldest
\* message, and the channel without it.
try_recv(channel) == [item |-> Head(channel), rest |-> Tail(channel)]

\* One turn of `while let Ok(transcription) = whisper_receiver.try_recv()`.
SupRecv ==
    /\ sup_pc = "recv"
    /\ whisper_out # <<>>
    /\ \E chunkOk \in BOOLEAN, trOk \in BOOLEAN :
          calls' = process_audio_result(try_recv(whisper_out).item, chunkOk, trOk)
    /\ audio_chunks' = ChunksAfter(calls')
    /\ audio_transcriptions' = TranscriptionsAfter(calls')
    /\ whisper_out' = try_recv(whisper_out).rest
    /\ UNCHANGED <<audio_devices_control, handles, tasks, sup_pc, whisper_in, clock,
                   inflightAtStop, finished>>
    /\ popped' = NoCmd
    /\ AudioFrame

\* A supervisor that leaves its loop when vision recording is switched off.
SupSleepWhileRecording ==
    /\ sup_pc = "recv"
    /\ whisper_out = <<>>
    /\ sup_pc' = IF vision_control THEN "control" ELSE "done"
    /\ calls' = <<>>
    /\ UNCHANGED <<audio_devices_control, handles, tasks, whisper_in, whisper_out, clock,
                   audio_chunks, audio_transcriptions, inflightAtStop, finished>>
    /\ popped' = NoCmd
    /\ AudioFrame

\* The result channel is empty: sleep 100 ms and start the next pass.
SupSleep ==
    /\ sup_pc = "recv"
    /\ whisper_out = <<>>
    /\ sup_pc' = "control"
    /\ calls' = <<>>
    /\ UNCHANGED <<audio_devices_control, handles, tasks, whisper_in, whisper_out, clock,
                   audio_chunks, audio_transcriptions, inflightAtStop, finished>>
    /\ popped' = NoCmd
    /\ AudioFrame

\* The supervisor loop of record_audio.
SupLoop == SupPop \/ SupRetain \/ SupRecv \/ SupSleep

\* ---------------------------------------------------------------- per-device worker
WorkerFrame ==
    /\ calls' = <<>>
    /\ popped' = NoCmd
    /\ UNCHANGED <<audio_devices_control, handles, sup_pc, whisper_out, audio_chunks,
                   audio_transcriptions, inflightAtStop>>

\* The top of the worker's loop: a new file name, then into record_and_transcribe
\* with a fresh stop flag initialised from the task's own copy of the command.
WorkerIterate(t) ==
    /\ tasks[t].state = "ready"
    /\ Budget
    /\ tasks' = [tasks EXCEPT ![t].state = "recording",
                              ![t].iteration = @ + 1,
                              ![t].path = [device |-> tasks[t].device, ts |-> clock + 1],
                              ![t].stop_flag = tasks[t].is_running]
    /\ clock' = clock + 1
    /\ UNCHANGED <<whisper_in, finished>>
    /\ WorkerFrame /\ AudioFrame

\* A worker that goes round its loop whatever record_and_transcribe returned.
AfterRecordRetry(result) == "ready"

\* `match result`: Ok goes round the loop, Err breaks out of it and the task returns.
AfterRecord(result) == IF result = "Ok" THEN "ready" ELSE "finished"

\* record_and_transcribe returns. On Ok it has handed the chunk file to the
\* transcription worker.
RecordReturns(t, result) ==
    /\ tasks[t].state = "recording"
    /\ whisper_in' = IF result = "Ok"
                     THEN Append(whisper_in,
                                 [path |-> tasks[t].path, device |-> tasks[t].device])
                     ELSE whisper_in
    /\ finished' = IF result = "Ok" THEN Append(finished, tasks[t].path) ELSE finished
    /\ tasks' = [tasks EXCEPT ![t].state = AfterRecord(result), ![t].result = result]
    /\ UNCHANGED clock
    /\ WorkerFrame /\ AudioFrame

\* ---------------------------------------------------------------- transcription worker
\* What the engine may make of one input: a transcript (possibly empty) or none,
\* with or without an error.
Transcriptions == {"none", "", "hello"}

Transcribe ==
    /\ whisper_in # <<>>
    /\ \E tr \in Transcriptions, err \in BOOLEAN :
          whisper_out' = Append(whisper_out,
                                [input |-> Head(whisper_in), transcription |-> tr,
                                 error |-> err])
    /\ whisper_in' = Tail(whisper_in)
    /\ calls' = <<>>
    /\ UNCHANGED <<audio_devices_control, handles, tasks, sup_pc, clock, audio_chunks,
                   audio_transcriptions, inflightAtStop, finished>>
    /\ popped' = NoCmd
    /\ AudioFrame

\* ---------------------------------------------------------------- VideoCapture
\* What the tasks of the vision side leave alone; they answer no request.
VisionFrame ==
    /\ resp' = NoResp
    /\ popped' = NoCmd
    /\ UNCHANGED <<devices_status, vision_control, now, requests, db_calls, searching,
                   audioVars>>

\* new_chunk_callback: spawn a task that will insert the chunk, and return.
new_chunk_callback(file_path) == chunk_tasks \cup {file_path}

\* The capture side starts a new chunk file and tells record_video through the
\* callback; chunk files are named by their number.
CaptureNewChunk ==
    /\ Budget
    /\ captures' = captures + 1
    /\ cur_chunk' = cur_chunk + 1
    /\ chunk_tasks' = new_chunk_callback(cur_chunk + 1)
    /\ calls' = <<>>
    /\ UNCHANGED <<ocr_frame_queue, video_pc, cur_frame, cur_frame_id, video_chunks,
                   frames, ocr_texts>>
    /\ VisionFrame

AppNames == {"", "term"}

\* The capture side queues the OCR result of a frame written to the current
\* chunk; seq is the frame's place in capture order.
CaptureFrame ==
    /\ Budget
    /\ captures' = captures + 1
    /\ cur_chunk # 0
    /\ \E app \in AppNames :
          ocr_frame_queue' = Append(ocr_frame_queue,
                                    [app_name |-> app, text |-> "hello",
                                     chunk |-> cur_chunk, seq |-> captures + 1])
    /\ calls' = <<>>
    /\ UNCHANGED <<chunk_tasks, cur_chunk, video_pc, cur_frame, cur_frame_id,
                   video_chunks, frames, ocr_texts>>
    /\ VisionFrame

\* Store::insert_video_chunk: a new row, whose id is its place in the table.
insert_video_chunk(file_path) == Append(video_chunks, [file_path |-> file_path])

\* A task spawned by the callback runs: insert_video_chunk, whose error is logged.
ChunkTask(file_path) ==
    /\ file_path \in chunk_tasks
    /\ chunk_tasks' = chunk_tasks \ {file_path}
    /\ \E ok \in BOOLEAN :
          /\ calls' = <<[op |-> "insert_video_chunk", file_path |-> file_path, ok |-> ok]>>
          /\ video_chunks' = IF ok THEN insert_video_chunk(file_path) ELSE video_chunks
    /\ UNCHANGED <<ocr_frame_queue, cur_chunk, video_pc, cur_frame, cur_frame_id,
                   frames, ocr_texts, captures>>
    /\ VisionFrame

\* ---------------------------------------------------------------- record_video
\* A loop that never looks at the flag.
LoopTestIgnoresFlag(is_running) == "pop"

\* `while is_running.load(SeqCst)`: where the loop goes on reading the flag.
LoopTest(is_running) == IF is_running THEN "pop" ELSE "done"

VideoTop ==
    /\ video_pc = "top"
    /\ video_pc' = LoopTest(vision_control)
    /\ calls' = <<>>
    /\ UNCHANGED <<ocr_frame_queue, chunk_tasks, cur_chunk, cur_frame, cur_frame_id,
                   video_chunks, frames, ocr_texts, captures>>
    /\ VisionFrame

\* A loop that takes the newest frame of the queue.
pop_back(queue) ==
    [frame |-> queue[Len(queue)], rest |-> SubSeq(queue, 1, Len(queue) - 1)]

\* VecDeque::pop_front on a queue that is not empty: the frame at the front,
\* and the queue without it.
pop_front(queue) == [frame |-> Head(queue), rest |-> Tail(queue)]

\* `if let Some(frame) = ocr_frame_queue.lock().await.pop_front()`
VideoPop ==
    /\ video_pc = "pop"
    /\ IF ocr_frame_queue = <<>>
       THEN /\ video_pc' = "sleep"
            /\ UNCHANGED <<ocr_frame_queue, cur_frame>>
       ELSE /\ video_pc' = "insert_frame"
            /\ cur_frame' = pop_front(ocr_frame_queue).frame
            /\ ocr_frame_queue' = pop_front(ocr_frame_queue).rest
    /\ calls' = <<>>
    /\ UNCHANGED <<chunk_tasks, cur_chunk, cur_frame_id, video_chunks, frames, ocr_texts,
                   captures>>
    /\ VisionFrame

\* An insert_frame that files every frame under the first video chunk.
insert_frame_first_chunk(frame) ==
    Append(frames,
           [video_chunk_id |-> 1,
            offset_index |-> Cardinality({f \in 1..Len(frames) :
                                             frames[f].video_chunk_id = 1}),
            app_name |-> frame.app_name, timestamp |-> now,
            chunk |-> frame.chunk, seq |-> frame.seq])

\* Store::insert_frame: the new row belongs to the latest video chunk. With no
\* chunk row there is nothing for it to belong to, and the insert fails.
\* The row takes the Store's time and its place among the frames of its chunk.
insert_frame(frame) ==
    Append(frames,
           [video_chunk_id |-> Len(video_chunks),
            offset_index |-> Cardinality({f \in 1..Len(frames) :
                                             frames[f].video_chunk_id = Len(video_chunks)}),
            app_name |-> frame.app_name, timestamp |-> now,
            chunk |-> frame.chunk, seq |-> frame.seq])

\* Store::insert_ocr_text
insert_ocr_text(frame_id, text, app_name) ==
    ocr_texts \cup {[frame_id |-> frame_id, text |-> text, app_name |-> app_name]}

\* A loop that returns the Store's error (`insert_frame(..).await?`).
AfterInsertFramePropagates(ok) == IF ok THEN "insert_ocr_text" ELSE "done"

\* A loop that goes on to insert_ocr_text whatever insert_frame answered.
AfterInsertFrameIgnoresError(ok) == "insert_ocr_text"

\* A loop that calls insert_ocr_text again when it has failed.
AfterInsertOcrTextRetries(ok) == IF ok THEN "sleep" ELSE "insert_ocr_text"

\* Where the loop goes after insert_frame and after insert_ocr_text: an Err of
\* either ends the iteration with `continue`, back at the flag test.
AfterInsertFrame(ok) == IF ok THEN "insert_ocr_text" ELSE "top"
AfterInsertOcrText(ok) == IF ok THEN "sleep" ELSE "top"

\* `match db.insert_frame(..).await`: on Err the frame is dropped and the loop
\* sleeps 100 ms before it continues.
VideoInsertFrame ==
    /\ video_pc = "insert_frame"
    /\ \E ok \in {b \in BOOLEAN : b => video_chunks # <<>>} :
          /\ calls' = <<[op |-> "insert_frame", app_name |-> cur_frame.app_name,
                         seq |-> cur_frame.seq, ok |-> ok]>>
          /\ frames' = IF ok THEN insert_frame(cur_frame) ELSE frames
          /\ cur_frame_id' = IF ok THEN Len(frames) + 1 ELSE cur_frame_id
          /\ cur_frame' = IF ok THEN cur_frame ELSE NoFrame
          /\ video_pc' = AfterInsertFrame(ok)
    /\ UNCHANGED <<ocr_frame_queue, chunk_tasks, cur_chunk, video_chunks, ocr_texts,
                   captures>>
    /\ VisionFrame

\* `if let Err(e) = db.insert_ocr_text(frame_id, ..).await { continue; }`, and
\* otherwise on to the sleep that ends the iteration.
VideoInsertOcrText ==
    /\ video_pc = "insert_ocr_text"
    /\ \E ok \in BOOLEAN :
          /\ calls' = <<[op |-> "insert_ocr_text", frame_id |-> cur_frame_id,
                         seq |-> cur_frame.seq, ok |-> ok]>>
          /\ ocr_texts' = IF ok
                          THEN insert_ocr_text(cur_frame_id, cur_frame.text,
                                               cur_frame.app_name)
                          ELSE ocr_texts
          /\ video_pc' = AfterInsertOcrText(ok)
    /\ cur_frame' = NoFrame
    /\ UNCHANGED <<ocr_frame_queue, chunk_tasks, cur_chunk, cur_frame_id, video_chunks,
                   frames, captures>>
    /\ VisionFrame

\* `tokio::time::sleep(1 / fps)` ends and the loop tests the flag again.
VideoSleep ==
    /\ video_pc = "sleep"
    /\ video_pc' = "top"
    /\ calls' = <<>>
    /\ UNCHANGED <<ocr_frame_queue, chunk_tasks, cur_chunk, cur_frame, cur_frame_id,
                   video_chunks, frames, ocr_texts, captures>>
    /\ VisionFrame

VideoLoop == VideoTop \/ VideoPop \/ VideoInsertFrame \/ VideoInsertOcrText \/ VideoSleep

\* ---------------------------------------------------------------- Store: queries
\* The tokens of a text, as the full-text index and the query parser cut it.
Tokens(text) ==
    CASE text = "" -> {}
      [] text = "hello world" -> {"hello", "world"}
      [] OTHER -> {text}

\* A row matches a query when every token of the query is a token of its text;
\* the empty query has no token and matches every row.
Matches(text, query) == Tokens(query) \subseteq Tokens(text)

\* Time bounds that take in the row stamped at end_time.
InTimeClosed(timestamp, start_time, end_time) ==
    /\ \A t \in start_time : t <= timestamp
    /\ \A t \in end_time : timestamp <= t

\* An optional argument is the empty set or the set of its one value. The time
\* bounds are half-open: start_time <= timestamp < end_time.
InTime(timestamp, start_time, end_time) ==
    /\ \A t \in start_time : t <= timestamp
    /\ \A t \in end_time : timestamp < t

\* OCR results that leave the app filter out.
OcrResultsAnyApp(query, start_time, end_time, app_name) ==
    {[type |-> "OCR", frame_id |-> o.frame_id, ocr_text |-> o.text,
      timestamp |-> frames[o.frame_id].timestamp,
      file_path |-> video_chunks[frames[o.frame_id].video_chunk_id].file_path,
      offset_index |-> frames[o.frame_id].offset_index, app_name |-> o.app_name] :
        o \in {x \in ocr_texts :
                  /\ Matches(x.text, query)
                  /\ InTime(frames[x.frame_id].timestamp, start_time, end_time)}}

\* The OCR results of a query: every OCR text that matches, joined to its frame
\* and to the frame's video chunk.
OcrResults(query, start_time, end_time, app_name) ==
    {[type |-> "OCR", frame_id |-> o.frame_id, ocr_text |-> o.text,
      timestamp |-> frames[o.frame_id].timestamp,
      file_path |-> video_chunks[frames[o.frame_id].video_chunk_id].file_path,
      offset_index |-> frames[o.frame_id].offset_index, app_name |-> o.app_name] :
        o \in {x \in ocr_texts :
                  /\ Matches(x.text, query)
                  /\ InTime(frames[x.frame_id].timestamp, start_time, end_time)
                  /\ \A a \in app_name : x.app_name = a}}

\* The audio results of a query: every transcription segment that matches,
\* joined to its audio chunk. Audio has no app: with an app filter there are none.
AudioResults(query, start_time, end_time, app_name) ==
    {[type |-> "Audio", audio_chunk_id |-> t.audio_chunk_id,
      transcription |-> t.transcription, timestamp |-> t.timestamp,
      file_path |-> audio_chunks[t.audio_chunk_id].file_path,
      offset_index |-> t.offset_index] :
        t \in {x \in audio_transcriptions :
                  /\ Matches(x.transcription, query)
                  /\ InTime(x.timestamp, start_time, end_time)
                  /\ app_name = {}}}

ContentTypes == {"OCR", "Audio", "All"}

\* Results that take All for OCR.
ResultsAllAsOcr(query, content_type, start_time, end_time, app_name) ==
    (IF content_type \in {"OCR", "All"}
     THEN OcrResults(query, start_time, end_time, app_name) ELSE {})
    \cup
    (IF content_type = "Audio"
     THEN AudioResults(query, start_time, end_time, app_name) ELSE {})

\* The results of a query: those of the kinds its content type asks for.
Results(query, content_type, start_time, end_time, app_name) ==
    (IF content_type \in {"OCR", "All"}
     THEN OcrResults(query, start_time, end_time, app_name) ELSE {})
    \cup
    (IF content_type \in {"Audio", "All"}
     THEN AudioResults(query, start_time, end_time, app_name) ELSE {})

\* The id a result is ordered by.
ResultId(r) == IF r.type = "OCR" THEN r.frame_id ELSE r.audio_chunk_id

\* The order of the results: newest first, equal timestamps by id descending;
\* what is still equal is ordered by segment and OCR before audio.
Before(x, y) ==
    \/ x.timestamp > y.timestamp
    \/ x.timestamp = y.timestamp /\ ResultId(x) > ResultId(y)
    \/ x.timestamp = y.timestamp /\ ResultId(x) = ResultId(y)
          /\ x.type = y.type /\ x.offset_index > y.offset_index
    \/ x.timestamp = y.timestamp /\ ResultId(x) = ResultId(y)
          /\ x.type = "OCR" /\ y.type = "Audio"

RECURSIVE Ordered(_)
Ordered(rows) ==
    IF rows = {} THEN <<>>
    ELSE LET first == CHOOSE x \in rows : \A y \in rows \ {x} : Before(x, y)
         IN  <<first>> \o Ordered(rows \ {first})

\* LIMIT limit OFFSET offset
Page(rows, limit, offset) ==
    SubSeq(rows, offset + 1, IF offset + limit < Len(rows) THEN offset + limit ELSE Len(rows))

\* A count that leaves the time bounds out of its query.
count_search_results_any_time(query, content_type, start_time, end_time, app_name) ==
    Cardinality(Results(query, content_type, {}, {}, app_name))

\* DatabaseManager::search and DatabaseManager::count_search_results
db_search(query, content_type, limit, offset, start_time, end_time, app_name) ==
    Page(Ordered(Results(query, content_type, start_time, end_time, app_name)),
         limit, offset)

count_search_results(query, content_type, start_time, end_time, app_name) ==
    Cardinality(Results(query, content_type, start_time, end_time, app_name))

\* ---------------------------------------------------------------- Store: driven directly
\* The Store called directly, as tests/db.rs calls it: no pipeline task and no
\* handler runs in these steps.
StoreFrame ==
    /\ resp' = NoResp
    /\ popped' = NoCmd
    /\ UNCHANGED <<devices_status, vision_control, requests, searching,
                   audio_devices_control,
                   handles, tasks, sup_pc, whisper_in, whisper_out, clock, inflightAtStop,
                   finished, ocr_frame_queue, chunk_tasks, cur_chunk, video_pc, cur_frame,
                   cur_frame_id, captures>>

InsertVideoChunk ==
    /\ Budget
    /\ db_calls' = db_calls + 1
    /\ calls' = <<[op |-> "insert_video_chunk", file_path |-> Len(video_chunks) + 1,
                   ok |-> TRUE]>>
    /\ video_chunks' = insert_video_chunk(Len(video_chunks) + 1)
    /\ UNCHANGED <<frames, ocr_texts, audio_chunks, audio_transcriptions, now>>
    /\ StoreFrame

OcrTextValues == {"hello", "hello world"}

\* insert_frame, and insert_ocr_text for the new frame unless the frame is left
\* without text.
InsertFrameAndOcrText(app, text, withText) ==
    /\ Budget
    /\ video_chunks # <<>>
    /\ db_calls' = db_calls + 1
    /\ calls' = <<[op |-> "insert_frame", app_name |-> app, seq |-> Len(frames) + 1,
                   ok |-> TRUE]>>
    /\ frames' = insert_frame([app_name |-> app, text |-> text,
                               chunk |-> video_chunks[Len(video_chunks)].file_path,
                               seq |-> Len(frames) + 1])
    /\ ocr_texts' = IF withText THEN insert_ocr_text(Len(frames) + 1, text, app)
                    ELSE ocr_texts
    /\ UNCHANGED <<video_chunks, audio_chunks, audio_transcriptions, now>>
    /\ StoreFrame

TranscriptionValues == {"hello", "world"}

\* insert_audio_chunk and insert_audio_transcription for the new chunk, or one
\* more segment for the latest chunk.
InsertAudio(text, newChunk) ==
    /\ Budget
    /\ newChunk \/ audio_chunks # <<>>
    /\ db_calls' = db_calls + 1
    /\ LET chunk_id == IF newChunk THEN Len(audio_chunks) + 1 ELSE Len(audio_chunks)
           offset == Cardinality({t \in audio_transcriptions : t.audio_chunk_id = chunk_id})
       IN  /\ calls' = <<[op |-> "insert_audio_transcription", audio_chunk_id |-> chunk_id,
                          transcription |-> text, offset_index |-> offset,
                          engine |-> "Whisper", ok |-> TRUE]>>
           /\ audio_chunks' =
                 IF newChunk
                 THEN Append(audio_chunks,
                             [file_path |-> [device |-> "mic (input)", ts |-> chunk_id]])
                 ELSE audio_chunks
           /\ audio_transcriptions' =
                 audio_transcriptions \cup
                    {[audio_chunk_id |-> chunk_id, transcription |-> text,
                      offset_index |-> offset, engine |-> "Whisper", timestamp |-> now]}
    /\ UNCHANGED <<video_chunks, frames, ocr_texts, now>>
    /\ StoreFrame

\* Time passes, up to the next of the instants looked at.
Tick(t) ==
    /\ now < t
    /\ now' = t
    /\ calls' = <<>>
    /\ db_calls' = db_calls
    /\ UNCHANGED <<video_chunks, frames, ocr_texts, audio_chunks, audio_transcriptions>>
    /\ StoreFrame

\* The arguments a query may be made with.
default_limit == 20
QueryStrings == {"", "world"}
Limits == {1, default_limit}
Offsets == {0, 1}
StartTimes == {{}, {60}}
EndTimes == {{}, {120}}
AppFilters == {{}, {"term"}}

\* The instants at which the Store is looked at.
QueryInstants == {60, 120}

\* search and count_search_results called one after the other on the same rows.
SearchAndCount(query, content_type, limit, offset, start_time, end_time, app_name) ==
    /\ calls' =
          <<[op |-> "search", query |-> query, content_type |-> content_type,
             limit |-> limit, offset |-> offset, start_time |-> start_time,
             end_time |-> end_time, app_name |-> app_name, ok |-> TRUE,
             result |-> db_search(query, content_type, limit, offset, start_time,
                                  end_time, app_name)],
            [op |-> "count_search_results", query |-> query,
             content_type |-> content_type, start_time |-> start_time,
             end_time |-> end_time, app_name |-> app_name, ok |-> TRUE,
             result |-> count_search_results(query, content_type, start_time, end_time,
                                             app_name)]>>
    /\ UNCHANGED <<video_chunks, frames, ocr_texts, audio_chunks, audio_transcriptions,
                   now, db_calls>>
    /\ StoreFrame

\* ---------------------------------------------------------------- search handler
\* The requests /search is called with. q is optional, like the time bounds and
\* the app name; a request asks for the first page or for a later one, and
\* gives no time bounds.
SearchQueries ==
    [q : {{}, {"hello"}}, content_type : ContentTypes,
     pagination : {[limit |-> default_limit, offset |-> 0], [limit |-> 1, offset |-> 1]},
     start_time : {{}}, end_time : {{}}, app_name : AppFilters]

\* query.q.as_deref().unwrap_or("")
query_str(query) == IF query.q = {} THEN "" ELSE CHOOSE x \in query.q : TRUE

\* A handler that passes the content type of the request on as it is.
RequestedContentType(query) == query.content_type

\* `if query.app_name.is_some() { ContentType::OCR } else { query.content_type }`
EffectiveContentType(query) ==
    IF query.app_name # {} THEN "OCR" ELSE query.content_type

\* into_content_item
into_content_item(result) ==
    IF result.type = "OCR"
    THEN [type |-> "OCR",
          content |-> [frame_id |-> result.frame_id, text |-> result.ocr_text,
                       timestamp |-> result.timestamp, file_path |-> result.file_path,
                       offset_index |-> result.offset_index,
                       app_name |-> result.app_name]]
    ELSE [type |-> "Audio",
          content |-> [chunk_id |-> result.audio_chunk_id,
                       transcription |-> result.transcription,
                       timestamp |-> result.timestamp, file_path |-> result.file_path,
                       offset_index |-> result.offset_index]]

\* The two responses of the handler.
SearchError(query, message) ==
    [req |-> "search", device_id |-> "", status |-> 500, query |-> query,
     error |-> message]

\* A response whose total is the length of the page.
PaginatedResponseTotalOfPage(query, results, total) ==
    [req |-> "search", device_id |-> "", status |-> 200, query |-> query,
     data |-> [i \in 1..Len(results) |-> into_content_item(results[i])],
     pagination |-> [limit |-> query.pagination.limit,
                     offset |-> query.pagination.offset, total |-> Len(results)]]

PaginatedResponse(query, results, total) ==
    [req |-> "search", device_id |-> "", status |-> 200, query |-> query,
     data |-> [i \in 1..Len(results) |-> into_content_item(results[i])],
     pagination |-> [limit |-> query.pagination.limit,
                     offset |-> query.pagination.offset, total |-> total]]

\* A handler that answers with a total of 0 when the count fails.
AfterCountDefaultsTotal(query, results, ok, total) ==
    PaginatedResponse(query, results, IF ok THEN total ELSE 0)

\* The response once count_search_results has returned.
AfterCount(query, results, ok, total) ==
    IF ok THEN PaginatedResponse(query, results, total)
    ELSE SearchError(query, "Failed to count search results")

\* What the handler leaves alone.
SearchFrame ==
    /\ popped' = NoCmd
    /\ UNCHANGED <<devices_status, vision_control, now, db_calls, audioVars, videoVars>>

\* /search up to the return of the Store's search: on Err the request is
\* answered 500 there and then.
search(query) ==
    /\ ~searching.active
    /\ Budget
    /\ requests' = requests + 1
    /\ \E ok \in BOOLEAN :
          LET content_type == EffectiveContentType(query)
              results == db_search(query_str(query), content_type, query.pagination.limit,
                                   query.pagination.offset, query.start_time,
                                   query.end_time, query.app_name)
          IN  /\ calls' = <<[op |-> "search", query |-> query_str(query),
                             content_type |-> content_type,
                             limit |-> query.pagination.limit,
                             offset |-> query.pagination.offset,
                             start_time |-> query.start_time,
                             end_time |-> query.end_time,
                             app_name |-> query.app_name, ok |-> ok]>>
              /\ searching' = IF ok
                              THEN [active |-> TRUE, query |-> query,
                                    content_type |-> content_type, results |-> results]
                              ELSE NoSearch
              /\ resp' = IF ok THEN NoResp
                         ELSE SearchError(query, "Failed to search for content")
    /\ SearchFrame

\* /search from there on: count_search_results, and the response.
search_count ==
    /\ searching.active
    /\ \E ok \in BOOLEAN :
          LET query == searching.query
              total == count_search_results(query_str(query), searching.content_type,
                                            query.start_time, query.end_time,
                                            query.app_name)
          IN  /\ calls' = <<[op |-> "count_search_results", query |-> query_str(query),
                             content_type |-> searching.content_type,
                             start_time |-> query.start_time,
                             end_time |-> query.end_time,
                             app_name |-> query.app_name, ok |-> ok]>>
              /\ resp' = AfterCount(query, searching.results, ok, total)
    /\ searching' = NoSearch
    /\ UNCHANGED requests
    /\ SearchFrame

\* ---------------------------------------------------------------- health_check
\* Server::start takes app_start_time from Utc::now(): the origin of `now`.
app_start_time == 0

\* Duration::from_secs(60) and Duration::from_secs(120)
threshold == 60
loading_threshold == 120

\* The instants at which rows are inserted and health is asked for: around the
\* end of the loading window, and a threshold before it.
HealthInstants == {59, 60, 61, 119, 120, 121}

\* The greatest element of a non-empty set of instants.
Latest(S) == CHOOSE x \in S : \A y \in S : y <= x

\* Latest timestamps that look at the frames of the newest video chunk only.
get_latest_timestamps_newest_chunk ==
    LET frame_ts == {frames[i].timestamp :
                        i \in {j \in 1..Len(frames) :
                                  frames[j].video_chunk_id = Len(video_chunks)}}
        audio_ts == {a.timestamp : a \in audio_transcriptions}
    IN  [last_frame |-> IF frame_ts = {} THEN {} ELSE {Latest(frame_ts)},
         last_audio |-> IF audio_ts = {} THEN {} ELSE {Latest(audio_ts)}]

\* DatabaseManager::get_latest_timestamps: the latest frame and the latest
\* transcription timestamp, each absent when there is no row.
get_latest_timestamps ==
    LET frame_ts == {frames[i].timestamp : i \in 1..Len(frames)}
        audio_ts == {a.timestamp : a \in audio_transcriptions}
    IN  [last_frame |-> IF frame_ts = {} THEN {} ELSE {Latest(frame_ts)},
         last_audio |-> IF audio_ts = {} THEN {} ELSE {Latest(audio_ts)}]

\* A loading window that still holds at its last instant.
is_loading_inclusive(time_since_start) == time_since_start <= loading_threshold

\* `time_since_start < loading_threshold`
is_loading(time_since_start) == time_since_start < loading_threshold

\* The status of one stream: the match on last_frame, and on last_audio.
stream_status(last, t) ==
    IF last = {} THEN "No data"
    ELSE IF t - Latest(last) < threshold THEN "OK" ELSE "Stale"

\* An overall status that one working stream is enough for.
overall_status_either(frame_status, audio_status) ==
    IF frame_status = "OK" \/ audio_status = "OK" THEN "Healthy" ELSE "Unhealthy"

\* `if frame_status == "OK" && audio_status == "OK"`
overall_status(frame_status, audio_status) ==
    IF frame_status = "OK" /\ audio_status = "OK" THEN "Healthy" ELSE "Unhealthy"

\* The body of the response; verbose_instructions is optional.
HealthCheckResponse(last_frame, last_audio, t) ==
    IF is_loading(t - app_start_time)
    THEN [status |-> "Loading", last_frame_timestamp |-> last_frame,
          last_audio_timestamp |-> last_audio, frame_status |-> "Loading",
          audio_status |-> "Loading",
          message |-> "The application is still initializing. Please wait...",
          verbose_instructions |-> {}]
    ELSE LET frame_status == stream_status(last_frame, t)
             audio_status == stream_status(last_audio, t)
             overall == overall_status(frame_status, audio_status)
         IN  [status |-> overall, last_frame_timestamp |-> last_frame,
              last_audio_timestamp |-> last_audio, frame_status |-> frame_status,
              audio_status |-> audio_status,
              message |-> IF overall = "Healthy"
                          THEN "All systems are functioning normally."
                          ELSE "Some systems are not functioning properly.",
              verbose_instructions |-> IF overall = "Healthy" THEN {}
                                       ELSE {"If you're experiencing issues, please try the following steps"}]

\* The timestamps of a read that keeps what the Store holds when it fails.
latest_timestamps_kept(ok) ==
    get_latest_timestamps

\* The match on the result of get_latest_timestamps: an Err is logged and read
\* as no timestamps at all.
latest_timestamps(ok) ==
    IF ok THEN get_latest_timestamps ELSE [last_frame |-> {}, last_audio |-> {}]

\* GET /health.
health_check ==
    /\ Budget
    /\ requests' = requests + 1
    /\ \E ok \in BOOLEAN :
          LET latest == latest_timestamps(ok)
          IN  /\ calls' = <<[op |-> "get_latest_timestamps", ok |-> ok]>>
              /\ resp' = [req |-> "health_check", device_id |-> "", status |-> 200,
                          body |-> HealthCheckResponse(latest.last_frame,
                                                       latest.last_audio, now)]
    /\ popped' = NoCmd
    /\ UNCHANGED <<devices_status, vision_control, now, db_calls, searching, audioVars,
                   videoVars>>

\* ---------------------------------------------------------------- specifications
\* The audio side: the device handlers, the supervisor, the per-device workers
\* and the transcription worker.
Next ==
    \/ \E id \in DeviceIds : start_device(id)
    \/ \E id \in DeviceIds : stop_device(id)
    \/ \E id \in DeviceIds : get_device_status(id)
    \/ get_devices
    \/ SupPop
    \/ SupRetain
    \/ SupRecv
    \/ SupSleep
    \/ \E t \in 1..Len(tasks) : WorkerIterate(t)
    \/ \E t \in 1..Len(tasks), result \in {"Ok", "Err"} : RecordReturns(t, result)
    \/ Transcribe

Spec == Init /\ [][Next]_vars

\* The vision side: the recording handlers, the capture side, the chunk-insert
\* tasks and the record_video loop. It never reads the device table.
NextVideo ==
    \/ start_recording
    \/ stop_recording
    \/ get_recording_status
    \/ CaptureNewChunk
    \/ CaptureFrame
    \/ \E p \in chunk_tasks : ChunkTask(p)
    \/ VideoTop
    \/ VideoPop
    \/ VideoInsertFrame
    \/ VideoInsertOcrText
    \/ VideoSleep

\* The vision side while time passes.
NextVideoTimed ==
    \/ NextVideo
    \/ \E t \in QueryInstants : Tick(t)

NoDevices == [d \in {} |-> DeviceControl(FALSE)]

InitVideo == Init /\ devices_status = NoDevices

SpecVideo == InitVideo /\ [][NextVideo]_vars

SpecVideoTimed == InitVideo /\ [][NextVideoTimed]_vars

\* The runtime polls a task that is ready to run: the loop is scheduled fairly.
SpecVideoFair == SpecVideo /\ WF_vars(VideoLoop)

\* Both sides together.
NextSystem == Next \/ NextVideo

SpecSystem == InitVideo /\ [][NextSystem]_vars

\* The control of both sides: the requests that start and stop devices and
\* recording, the audio side they act on, and the record_video loop with
\* nothing to insert, for the commands of one device. The supervisor task is
\* scheduled fairly.
NextControl ==
    \/ start_device("mic (input)")
    \/ stop_device("mic (input)")
    \/ start_recording
    \/ stop_recording
    \/ SupPop
    \/ SupRetain
    \/ SupRecv
    \/ SupSleep
    \/ \E t \in 1..Len(tasks) : WorkerIterate(t)
    \/ \E t \in 1..Len(tasks), result \in {"Ok", "Err"} : RecordReturns(t, result)
    \/ Transcribe
    \/ VideoTop
    \/ VideoPop
    \/ VideoSleep

SpecControlFair == InitVideo /\ [][NextControl]_vars /\ WF_vars(SupLoop)

\* The Store alone: inserts, the passing of time, and queries.
NextStore ==
    \/ InsertVideoChunk
    \/ \E app \in AppNames, text \in OcrTextValues, withText \in BOOLEAN :
          InsertFrameAndOcrText(app, text, withText)
    \/ \E text \in TranscriptionValues, newChunk \in BOOLEAN : InsertAudio(text, newChunk)
    \/ \E t \in QueryInstants : Tick(t)
    \/ \E call \in {[content_type |-> "OCR", end_time |-> {}],
                     [content_type |-> "All", end_time |-> {120}]} :
          SearchAndCount("hello", call.content_type, default_limit, 0, {60},
                         call.end_time, {})

SpecStore == InitVideo /\ [][NextStore]_vars

\* The Store with the search handler over it: rows are inserted while requests
\* are answered.
NextQuery ==
    \/ InsertVideoChunk
    \/ \E app \in AppNames, text \in OcrTextValues, withText \in BOOLEAN :
          InsertFrameAndOcrText(app, text, withText)
    \/ \E text \in TranscriptionValues, newChunk \in BOOLEAN : InsertAudio(text, newChunk)
    \/ \E query \in SearchQueries : search(query)
    \/ search_count

SpecQuery == InitVideo /\ [][NextQuery]_vars

\* The Store with the health handler over it: rows are inserted as time passes,
\* and health is asked for at any instant.
NextHealth ==
    \/ InsertVideoChunk
    \/ \E app \in AppNames, text \in OcrTextValues, withText \in BOOLEAN :
          InsertFrameAndOcrText(app, text, withText)
    \/ \E text \in TranscriptionValues, newChunk \in BOOLEAN : InsertAudio(text, newChunk)
    \/ \E t \in HealthInstants : Tick(t)
    \/ health_check

SpecHealth == InitVideo /\ [][NextHealth]_vars

\* The HTTP handlers alone, every route of the server, in any order.
NextHandlers ==
    \/ \E id \in DeviceIds : start_device(id)
    \/ \E id \in DeviceIds : stop_device(id)
    \/ \E id \in DeviceIds : get_device_status(id)
    \/ get_devices
    \/ start_recording
    \/ stop_recording
    \/ get_recording_status
    \/ \E query \in SearchQueries : search(query)
    \/ search_count
    \/ health_check

SpecHandlers == Init /\ [][NextHandlers]_vars

\* ================================================================ properties
\* The supervisor has just processed a start (a stop) command for key.
PoppedStart(key) == popped.key = key /\ popped.is_running
PoppedStop(key) == popped.key = key /\ ~popped.is_running

\* C1: when the supervisor processes a start command for a device whose table
\* entry is still there (an earlier start, and no stop since), exactly one
\* worker task of that device is running afterwards.
C1_OneWorkerAfterSecondStart ==
    [][\A key \in DeviceKeys :
          (PoppedStart(key)' /\ handles[key] # 0) => Cardinality(Running(key))' = 1]_vars

\* No worker of the device is running and the table has no entry for it.
Stopped(key) == handles[key] = 0 /\ Running(key) = {}

\* C2: once a stop command for a device is processed, no worker task of that
\* device is running and the table has no entry for it, and this stays so until
\* a start command for the device is processed.
C2_StoppedAfterStop ==
    [][\A key \in DeviceKeys :
          /\ PoppedStop(key)' => Stopped(key)'
          /\ (Stopped(key) /\ ~PoppedStart(key)') => Stopped(key)']_vars

\* The file paths of the video_chunks rows.
ChunkPaths == {video_chunks[i].file_path : i \in 1..Len(video_chunks)}

\* C3: when record_video calls insert_frame for a frame, the row of the chunk
\* the frame was captured in is already in the Store.
C3_ChunkRowBeforeFrame ==
    video_pc = "insert_frame" => cur_frame.chunk \in ChunkPaths

\* C4: a list request that follows a start (stop) request for a device reports
\* that device with is_running = true (false).
C4_ListFollowsStartStop ==
    [][\A id \in DeviceIds :
          (resp'.req = "get_devices" /\ resp.status = 200 /\ resp.device_id = id) =>
             /\ resp.req = "start_device" =>
                   [id |-> id, is_running |-> TRUE] \in resp'.list
             /\ resp.req = "stop_device" =>
                   [id |-> id, is_running |-> FALSE] \in resp'.list]_vars

\* C5: stopping a device that has no worker is a no-op. The handler answers 200
\* with is_running = false; the supervisor, processing the command, leaves the
\* table and every task as they are; and a status request for a device that is
\* not in the device table is answered 404.
C5_StopWithoutWorker ==
    [][/\ \A id \in {i \in DeviceIds : from_name(i).ok} :
            /\ (resp'.req = "stop_device" /\ resp'.device_id = id
                    /\ handles[to_string(AudioDevice(id))] = 0)
                  => (resp'.status = 200 /\ resp'.id = id /\ resp'.is_running = FALSE)
            /\ (resp'.req = "get_device_status" /\ resp'.device_id = id
                    /\ AudioDevice(id) \notin DOMAIN devices_status)
                  => resp'.status = 404
       /\ \A key \in DeviceKeys :
            (PoppedStop(key)' /\ handles[key] = 0) => (handles' = handles /\ tasks' = tasks)
      ]_vars

\* The supervisor has processed a stop for a device no task was ever spawned
\* for, after the handler accepted it.
C5_Witness ==
    \E key \in DeviceKeys :
        PoppedStop(key) /\ \A t \in 1..Len(tasks) : tasks[t].device # key

\* The number of live worker tasks of a device.
Live(key) == Cardinality(Running(key))

\* C6: a worker whose record_and_transcribe returned an error has left its loop
\* and never runs again; the supervisor's sweep leaves no returned task in the
\* table; and the live workers of a device grow in number only when the
\* supervisor processes a start command for that device.
C6_FailedWorkerStaysDown ==
    [][/\ \A t \in 1..Len(tasks) :
            /\ tasks'[t].result = "Err" => tasks'[t].state = "finished"
            /\ tasks[t].state = "finished" => tasks'[t].state = "finished"
       /\ (sup_pc = "control" /\ sup_pc' = "recv") =>
             \A key \in DeviceKeys :
                handles'[key] # 0 => tasks'[handles'[key]].state # "finished"
       /\ \A key \in DeviceKeys : Live(key)' > Live(key) => PoppedStart(key)'
      ]_vars

\* A worker has failed, the sweep has removed its entry, and the one request
\* made so far is the start that spawned it.
C6_Witness ==
    /\ requests = 1
    /\ \E t \in 1..Len(tasks) :
          tasks[t].result = "Err" /\ tasks[t].state = "finished"
             /\ handles[tasks[t].device] = 0

\* C7 as stated: whenever the recording flag is false, the record_video loop
\* eventually exits.
C7_StopLeadsToExit == (~vision_control) ~> (video_pc = "done")

\* C7 as amended: whenever the recording flag is false, the loop eventually
\* exits unless the flag is set back to true first.
C7_StopLeadsToExitUnlessRestarted ==
    (~vision_control) ~> (video_pc = "done" \/ vision_control)

\* The flag is false and the loop has exited.
C7_Witness == ~vision_control /\ video_pc = "done"

\* C8: no per-item error ends the pipeline. record_video leaves its loop only
\* at the flag test, on reading false; a step in which a Store insert failed
\* leaves record_video at the flag test and the supervisor in its loop; and
\* after any transcription result, failed or not, the supervisor goes on
\* draining.
C8_NoExitOnItemError ==
    [][/\ (video_pc' = "done" /\ video_pc # "done") =>
             (video_pc = "top" /\ ~vision_control)
       /\ \A i \in 1..Len(calls') :
             ~calls'[i].ok =>
                /\ video_pc' = "done" => video_pc = "done"
                /\ sup_pc' \in {"control", "recv"}
                /\ calls'[i].op \in {"insert_frame", "insert_ocr_text"} => video_pc' = "top"
       /\ (whisper_out # <<>> /\ whisper_out' = Tail(whisper_out)) => sup_pc' = "recv"
      ]_vars

\* A frame row without OCR text (its insert_ocr_text failed) is followed by a
\* later frame whose OCR text was inserted.
C8_Witness ==
    \E f \in 1..Len(frames), g \in 1..Len(frames) :
        /\ f < g
        /\ \A o \in ocr_texts : o.frame_id # f
        /\ \E o \in ocr_texts : o.frame_id = g

\* C9: for a result with an error or without a transcription the supervisor
\* makes no Store call and the audio tables stay as they are. For any other
\* result the first call is insert_audio_chunk with the result's path, and a
\* second call follows exactly when that insert succeeded and the transcription
\* is not empty: insert_audio_transcription for the new chunk's id.
C9_ResultInsertion ==
    [][(sup_pc = "recv" /\ whisper_out # <<>> /\ whisper_out' = Tail(whisper_out)) =>
          LET r == Head(whisper_out) IN
          IF r.error \/ r.transcription = "none"
          THEN /\ calls' = <<>>
               /\ audio_chunks' = audio_chunks
               /\ audio_transcriptions' = audio_transcriptions
          ELSE /\ Len(calls') \in {1, 2}
               /\ calls'[1].op = "insert_audio_chunk"
               /\ calls'[1].file_path = r.input.path
               /\ Len(calls') = 2 <=> (calls'[1].ok /\ r.transcription # "")
               /\ Len(calls') = 2 =>
                     /\ calls'[2].op = "insert_audio_transcription"
                     /\ calls'[2].audio_chunk_id = Len(audio_chunks')
                     /\ calls'[2].transcription = r.transcription
               /\ Len(audio_chunks') = Len(audio_chunks) + (IF calls'[1].ok THEN 1 ELSE 0)
      ]_vars

\* Both inserts were made for a result, and both succeeded.
C9_Witness ==
    /\ Len(calls) = 2
    /\ calls[1].op = "insert_audio_chunk" /\ calls[1].ok
    /\ calls[2].op = "insert_audio_transcription" /\ calls[2].ok
    /\ \E r \in audio_transcriptions : r.audio_chunk_id = Len(audio_chunks)

\* C10: no chunk that was being recorded for a device when a stop command for
\* that device was processed ever gets an audio_chunks row.
C10_InFlightDiscarded ==
    \A i \in 1..Len(audio_chunks) : audio_chunks[i].file_path \notin inflightAtStop

\* The place of a chunk in an order of finishing (0: it is not in it).
FinishedAt(order, path) ==
    IF \E i \in 1..Len(order) : order[i] = path
    THEN CHOOSE i \in 1..Len(order) : order[i] = path
    ELSE 0

\* The chunk paths still on their way to the supervisor.
Pending ==
    {whisper_in[i].path : i \in 1..Len(whisper_in)}
        \cup {whisper_out[i].input.path : i \in 1..Len(whisper_out)}

\* C11: audio chunks of one device reach the Store in the order they finished
\* recording. When insert_audio_chunk is called for a chunk, no chunk of the
\* same device that finished before it is still on its way to the supervisor,
\* so none of them can be inserted after it; and the rows of one device's
\* chunks are in the order the chunks finished.
C11_AudioInsertOrder ==
    [][/\ \A i \in 1..Len(calls') :
             calls'[i].op = "insert_audio_chunk" =>
                \A p \in Pending' :
                    p.device = calls'[i].file_path.device =>
                       FinishedAt(finished', p) > FinishedAt(finished', calls'[i].file_path)
       /\ \A i \in 1..Len(audio_chunks'), j \in 1..Len(audio_chunks') :
             (i < j /\ audio_chunks'[i].file_path.device = audio_chunks'[j].file_path.device)
                => FinishedAt(finished', audio_chunks'[i].file_path)
                      < FinishedAt(finished', audio_chunks'[j].file_path)
      ]_vars

\* Two chunks of one device have rows, and the one inserted first was started
\* after the other: two workers of the device were recording at once.
C11_Witness ==
    \E i \in 1..Len(audio_chunks), j \in 1..Len(audio_chunks) :
        /\ i < j
        /\ audio_chunks[i].file_path.device = audio_chunks[j].file_path.device
        /\ audio_chunks[i].file_path.ts > audio_chunks[j].file_path.ts

\* C12: OCR frames are inserted in capture order. The loop takes the frame at
\* the front of the queue, alone; when insert_frame is called for a frame, every
\* frame still queued was captured after it and every frame row is of a frame
\* captured before it; and insert_ocr_text is called only for the frame whose
\* row insert_frame has just added, before anything else is taken.
C12_FrameInsertOrder ==
    [][/\ (video_pc = "pop" /\ video_pc' = "insert_frame") =>
             /\ cur_frame = NoFrame
             /\ cur_frame' = Head(ocr_frame_queue)
             /\ ocr_frame_queue' = Tail(ocr_frame_queue)
       /\ \A i \in 1..Len(calls') :
             /\ calls'[i].op = "insert_frame" =>
                   /\ \A k \in 1..Len(ocr_frame_queue') :
                         ocr_frame_queue'[k].seq > calls'[i].seq
                   /\ \A r \in 1..Len(frames) : frames[r].seq < calls'[i].seq
             /\ calls'[i].op = "insert_ocr_text" =>
                   /\ video_pc = "insert_ocr_text"
                   /\ calls'[i].frame_id = Len(frames)
                   /\ frames[Len(frames)].seq = calls'[i].seq
                   /\ frames' = frames
      ]_vars

\* Two frames were queued together and both have their row and their OCR text.
C12_Witness ==
    /\ Len(frames) = 2
    /\ \A f \in 1..2 : \E o \in ocr_texts : o.frame_id = f
    /\ captures = 3

\* C14: start_recording leaves the flag true and answers true, stop_recording
\* leaves it false and answers false, whatever the flag was: the same request
\* made twice in a row leaves the flag and the answer of the first. The flag
\* changes in no other step, and get_recording_status answers with the flag as
\* it stands, which is therefore the value the latest start or stop wrote.
C14_RecordingIdempotent ==
    [][/\ resp'.req = "start_recording" => (vision_control' /\ resp'.is_running)
       /\ resp'.req = "stop_recording" => (~vision_control' /\ ~resp'.is_running)
       /\ (resp'.req = resp.req /\ resp.req \in {"start_recording", "stop_recording"}) =>
             (vision_control' = vision_control /\ resp' = resp)
       /\ resp'.req = "get_recording_status" =>
             (resp'.is_running = vision_control /\ vision_control' = vision_control)
       /\ (resp.req \in {"start_recording", "stop_recording"}
               /\ resp'.req = "get_recording_status") =>
             resp'.is_running = resp.is_running
       /\ vision_control' # vision_control =>
             resp'.req \in {"start_recording", "stop_recording"}
      ]_vars

\* Three requests were made; the last, a status request made after a stop, was
\* answered false.
C14_Witness ==
    /\ resp = RecordingStatus("get_recording_status", FALSE)
    /\ requests = 3
    /\ video_pc = "top"

\* C17: a device request whose device_id does not parse is answered 400 and
\* changes nothing: the control queue, the recording flag, the device table and
\* the state of both pipelines are as before. No other device request is
\* answered 400.
C17_BadRequestNoChange ==
    [][resp'.req \in {"start_device", "stop_device", "get_device_status"} =>
          /\ ~from_name(resp'.device_id).ok =>
                /\ resp'.status = 400
                /\ audio_devices_control' = audio_devices_control
                /\ UNCHANGED <<vision_control, devices_status, audioVars, videoVars>>
          /\ resp'.status = 400 => ~from_name(resp'.device_id).ok
      ]_vars

\* A start request with an id that does not parse was refused while an earlier
\* command was waiting in the queue.
C17_Witness ==
    /\ resp.req = "start_device" /\ resp.status = 400
    /\ audio_devices_control # <<>>

\* A limit no smaller than the number of rows there are.
NoLimit == Len(frames) + Cardinality(audio_transcriptions) + 1

\* The frames a query for OCR text is to find: those with an OCR text holding
\* every token of the query, a timestamp within the bounds and the app asked for.
ExpectedFrames(query, start_time, end_time, app_name) ==
    {f \in 1..Len(frames) :
        /\ \E o \in ocr_texts : o.frame_id = f /\ Tokens(query) \subseteq Tokens(o.text)
        /\ start_time # {} => \E t \in start_time : frames[f].timestamp >= t
        /\ end_time # {} => \E t \in end_time : frames[f].timestamp < t
        /\ app_name # {} => frames[f].app_name \in app_name}

\* C19: after any inserts, a search for OCR text returns exactly the frames
\* whose OCR text matches the query and which satisfy the time and app filters,
\* each once, with the stored text and the file path of the frame's video chunk.
C19_OcrSearchExact ==
    \A query \in QueryStrings, start_time \in StartTimes, end_time \in EndTimes,
       app_name \in AppFilters :
        LET result == db_search(query, "OCR", NoLimit, 0, start_time, end_time, app_name)
            expected == ExpectedFrames(query, start_time, end_time, app_name)
        IN  /\ Len(result) = Cardinality(expected)
            /\ {result[i].frame_id : i \in 1..Len(result)} = expected
            /\ \A i \in 1..Len(result) :
                  /\ result[i].type = "OCR"
                  /\ \E o \in ocr_texts :
                        o.frame_id = result[i].frame_id /\ o.text = result[i].ocr_text
                  /\ result[i].file_path =
                        video_chunks[frames[result[i].frame_id].video_chunk_id].file_path

\* A search for OCR text with a start time has returned one of two frames that
\* both have a matching text: the other is older than the start time.
C19_Witness ==
    /\ calls # <<>> /\ calls[1].op = "search"
    /\ calls[1].content_type = "OCR" /\ calls[1].start_time = {60}
    /\ Len(calls[1].result) = 1
    /\ \A f \in 1..2 : \E o \in ocr_texts : o.frame_id = f /\ Matches(o.text, "hello")
    /\ Len(frames) = 2

SearchCalls(cs) ==
    {i \in 1..Len(cs) : cs[i].op \in {"search", "count_search_results"}}

\* C13: when /search is called with an app name, both Store calls are made with
\* content type OCR whatever the request asked for, and the app name is passed
\* on to them; the response then holds no Audio item.
C13_AppNameForcesOcr ==
    [][/\ \A i \in SearchCalls(calls') :
             calls'[i].app_name # {} => calls'[i].content_type = "OCR"
       /\ (~searching.active /\ requests' = requests + 1 /\ SearchCalls(calls') # {})
             => \E query \in SearchQueries :
                   /\ calls'[1].app_name = query.app_name
                   /\ \/ searching' # NoSearch /\ searching'.query = query
                      \/ resp'.req = "search" /\ resp'.query = query
       /\ (searching.active /\ ~searching'.active)
             => /\ calls'[1].op = "count_search_results"
                /\ calls'[1].app_name = searching.query.app_name
       /\ (resp'.req = "search" /\ resp'.status = 200 /\ resp'.query.app_name # {})
             => \A i \in 1..Len(resp'.data) : resp'.data[i].type = "OCR"]_vars

\* A request with an app name that asked for Audio or All is answered with a
\* frame, while the Store holds a transcription its query matches.
C13_Witness ==
    /\ resp.req = "search"
    /\ resp.status = 200
    /\ resp.query.app_name # {}
    /\ resp.query.content_type \in {"Audio", "All"}
    /\ Len(resp.data) > 0
    /\ \E a \in audio_transcriptions : Matches(a.transcription, query_str(resp.query))

\* C18: when either Store call of /search fails the request is answered 500
\* with an error message and without data, also when the search itself had
\* succeeded; a 200 response is given only when the search and the count both
\* succeeded.
C18_SearchFailsWhole ==
    [][/\ \A i \in SearchCalls(calls') :
             ~calls'[i].ok
                => /\ resp'.req = "search"
                   /\ resp'.status = 500
                   /\ resp'.error # ""
                   /\ "data" \notin DOMAIN resp'
                   /\ "pagination" \notin DOMAIN resp'
                   /\ ~searching'.active
       /\ (~searching.active /\ searching'.active)
             => /\ calls'[1].op = "search" /\ calls'[1].ok
                /\ resp' = NoResp
       /\ (resp'.req = "search" /\ resp'.status = 200)
             => /\ searching.active
                /\ calls'[1].op = "count_search_results" /\ calls'[1].ok
                /\ Len(resp'.data) = Len(searching.results)
       /\ resp'.req = "search" => resp'.status \in {200, 500}]_vars

\* The count fails after a search that had found a frame: the answer is 500.
C18_Witness ==
    /\ resp.req = "search"
    /\ resp.status = 500
    /\ calls # <<>>
    /\ calls[1].op = "count_search_results"
    /\ ~calls[1].ok
    /\ resp.query.q = {}
    /\ resp.query.start_time = {}
    /\ resp.query.pagination.offset = 0
    /\ resp.query.content_type = "OCR"
    /\ ocr_texts # {}

\* The status a stream has after the loading window: OK when its last
\* timestamp is less than 60 s before t, Stale from 60 s on, No data without one.
StreamClass(last, t) ==
    IF last = {} THEN "No data"
    ELSE IF \E ts \in last : t - ts < 60 THEN "OK" ELSE "Stale"

\* C15: a health check made less than 120 s after the start reports Loading
\* as status, frame_status and audio_status, whatever timestamps the Store
\* holds; one made at 120 s or later reports Loading in none of the three.
C15_LoadingWindow ==
    [][resp'.req = "health_check"
         => LET body == resp'.body
            IN  /\ now' < 120
                   => /\ body.status = "Loading"
                      /\ body.frame_status = "Loading"
                      /\ body.audio_status = "Loading"
                /\ now' >= 120
                   => /\ body.status # "Loading"
                      /\ body.frame_status # "Loading"
                      /\ body.audio_status # "Loading"]_vars

\* Loading is reported at 119 s although both streams have fresh rows.
C15_Witness ==
    /\ resp.req = "health_check"
    /\ now = 119
    /\ resp.body.status = "Loading"
    /\ resp.body.last_frame_timestamp # {}
    /\ resp.body.last_audio_timestamp # {}

\* C16: a health check made after the loading window classifies each stream
\* by its own last timestamp (OK when less than 60 s old, Stale when older,
\* No data when there is none); the overall status is Healthy exactly when
\* both streams are OK and Unhealthy otherwise, and an Unhealthy response
\* carries the remediation instructions.
C16_StreamClassification ==
    [][(resp'.req = "health_check" /\ now' >= 120)
         => LET body == resp'.body
                read == calls'[1].ok
                latest == IF read THEN get_latest_timestamps'
                          ELSE [last_frame |-> {}, last_audio |-> {}]
            IN  /\ body.last_frame_timestamp = latest.last_frame
                /\ body.last_audio_timestamp = latest.last_audio
                /\ body.frame_status = StreamClass(latest.last_frame, now')
                /\ body.audio_status = StreamClass(latest.last_audio, now')
                /\ body.status \in {"Healthy", "Unhealthy"}
                /\ body.status = "Healthy"
                      <=> (body.frame_status = "OK" /\ body.audio_status = "OK")
                /\ body.status = "Unhealthy" <=> body.verbose_instructions # {}]_vars

\* After the loading window the frames are fresh and the audio is stale: the
\* streams are classified differently and the whole is Unhealthy.
C16_Witness ==
    /\ resp.req = "health_check"
    /\ now >= 120
    /\ resp.body.frame_status = "OK"
    /\ resp.body.audio_status = "Stale"
    /\ resp.body.status = "Unhealthy"
    /\ resp.body.verbose_instructions # {}

\* The rows of a page of results, as a set.
Rows(result) == {result[i] : i \in 1..Len(result)}

\* The transcription segments a query for audio is to find with both time
\* bounds given, each named by its chunk and its place in the chunk.
SegmentsWithin(query, s, e) ==
    {<<a.audio_chunk_id, a.offset_index>> :
        a \in {x \in audio_transcriptions :
                  /\ Tokens(query) \subseteq Tokens(x.transcription)
                  /\ s <= x.timestamp /\ x.timestamp < e}}

\* C21: a search with a start time s and an end time e returns exactly the
\* matching rows whose timestamp t has s <= t < e, among the frames with OCR
\* text and among the transcription segments alike: rows inserted before s and
\* rows stamped e or later are left out, those in between are returned.
C21_TimeBoundsHalfOpen ==
    \A query \in QueryStrings, s \in UNION StartTimes, e \in UNION EndTimes :
        LET ocr == db_search(query, "OCR", NoLimit, 0, {s}, {e}, {})
            audio == db_search(query, "Audio", NoLimit, 0, {s}, {e}, {})
            within == {f \in 1..Len(frames) :
                          /\ \E o \in ocr_texts :
                                o.frame_id = f /\ Tokens(query) \subseteq Tokens(o.text)
                          /\ s <= frames[f].timestamp /\ frames[f].timestamp < e}
        IN  /\ {r.frame_id : r \in Rows(ocr)} = within
            /\ Len(ocr) = Cardinality(within)
            /\ {<<r.audio_chunk_id, r.offset_index>> : r \in Rows(audio)}
                  = SegmentsWithin(query, s, e)
            /\ Len(audio) = Cardinality(SegmentsWithin(query, s, e))

\* A search with both bounds has returned a frame and a transcription inserted
\* at the start time, and not the matching frame inserted before it.
C21_Witness ==
    /\ calls # <<>> /\ calls[1].op = "search"
    /\ calls[1].content_type = "All"
    /\ calls[1].start_time = {60} /\ calls[1].end_time = {120}
    /\ \E r \in Rows(calls[1].result) : r.type = "OCR" /\ r.timestamp = 60
    /\ \E r \in Rows(calls[1].result) : r.type = "Audio" /\ r.timestamp = 60
    /\ \E o \in ocr_texts : Matches(o.text, "hello") /\ frames[o.frame_id].timestamp < 60

\* C22: a search with content type All returns the matching OCR rows together
\* with the matching transcription segments, every segment of a chunk as a
\* result of its own; with content type OCR it returns the OCR rows only, and
\* with content type Audio the segments only.
C22_ContentTypes ==
    \A query \in QueryStrings, start_time \in StartTimes, end_time \in EndTimes :
        LET all == db_search(query, "All", NoLimit, 0, start_time, end_time, {})
            ocr == db_search(query, "OCR", NoLimit, 0, start_time, end_time, {})
            audio == db_search(query, "Audio", NoLimit, 0, start_time, end_time, {})
            segments == {a \in audio_transcriptions :
                            /\ Tokens(query) \subseteq Tokens(a.transcription)
                            /\ start_time # {} => \E t \in start_time : a.timestamp >= t
                            /\ end_time # {} => \E t \in end_time : a.timestamp < t}
        IN  /\ \A r \in Rows(ocr) : r.type = "OCR"
            /\ \A r \in Rows(audio) : r.type = "Audio"
            /\ Len(ocr) = Cardinality(ExpectedFrames(query, start_time, end_time, {}))
            /\ Len(audio) = Cardinality(segments)
            /\ \A a \in segments :
                  \E r \in Rows(audio) :
                     /\ r.audio_chunk_id = a.audio_chunk_id
                     /\ r.offset_index = a.offset_index
                     /\ r.transcription = a.transcription
            /\ Rows(all) = Rows(ocr) \cup Rows(audio)
            /\ Len(all) = Len(ocr) + Len(audio)

\* A search for All has returned a frame and two segments of one audio chunk.
C22_Witness ==
    /\ calls # <<>> /\ calls[1].op = "search"
    /\ calls[1].content_type = "All"
    /\ Len(calls[1].result) = 3
    /\ \E r \in Rows(calls[1].result) : r.type = "OCR"
    /\ \E x, y \in Rows(calls[1].result) :
          /\ x.type = "Audio" /\ y.type = "Audio"
          /\ x.audio_chunk_id = y.audio_chunk_id
          /\ x.offset_index # y.offset_index

\* One optional timestamp is no earlier than another; none is earlier than any.
NotEarlier(a, b) == b = {} \/ (a # {} /\ Latest(a) >= Latest(b))

\* The successful inserts of a frame or of an OCR text among the Store calls of
\* a step.
OcrInserts(cs) ==
    {i \in 1..Len(cs) : cs[i].op \in {"insert_frame", "insert_ocr_text"} /\ cs[i].ok}

\* C23: the last_frame of get_latest_timestamps never decreases, whatever step
\* is taken; after a frame or an OCR text has been inserted by record_video it
\* is there, and no frame row is later than it.
C23_LastFrameMonotone ==
    [][/\ NotEarlier(get_latest_timestamps'.last_frame, get_latest_timestamps.last_frame)
       /\ OcrInserts(calls') # {}
             => /\ get_latest_timestamps'.last_frame # {}
                /\ \A f \in 1..Len(frames') :
                      frames'[f].timestamp <= Latest(get_latest_timestamps'.last_frame)
      ]_vars

\* record_video has just inserted a second frame, later than the first:
\* last_frame has moved on to it.
C23_Witness ==
    /\ Len(frames) = 2
    /\ calls # <<>> /\ calls[1].op = "insert_frame" /\ calls[1].ok
    /\ frames[1].timestamp < frames[2].timestamp
    /\ get_latest_timestamps.last_frame = {frames[2].timestamp}

\* C24: insert_frame files the new frame under the video chunk that was
\* inserted last at that moment; the rows of the frames already there stay as
\* they are, and after every Store call an OCR search result for a frame
\* carries the file path of the chunk the frame was filed under.
C24_FrameInLatestChunk ==
    [][/\ \A i \in 1..Len(calls') :
             (calls'[i].op = "insert_frame" /\ calls'[i].ok)
                => /\ Len(frames') = Len(frames) + 1
                   /\ video_chunks # <<>>
                   /\ frames'[Len(frames')].video_chunk_id = Len(video_chunks)
                   /\ \A c \in 1..Len(video_chunks) :
                         c <= frames'[Len(frames')].video_chunk_id
       /\ \A f \in 1..Len(frames) :
             Len(frames') >= f /\ frames'[f].video_chunk_id = frames[f].video_chunk_id
       /\ \A c \in 1..Len(video_chunks) :
             Len(video_chunks') >= c /\ video_chunks'[c] = video_chunks[c]
       /\ calls' # <<>>
             => LET result == db_search("", "OCR", NoLimit, 0, {}, {}, {})'
                IN  /\ \A o \in ocr_texts' :
                          \E r \in Rows(result) : r.frame_id = o.frame_id
                    /\ \A r \in Rows(result) :
                          r.file_path
                             = video_chunks'[frames'[r.frame_id].video_chunk_id].file_path
      ]_vars

\* A frame inserted after the second chunk row has its OCR text, and the
\* search result for it carries the second chunk's file path.
C24_Witness ==
    /\ Len(video_chunks) = 2
    /\ \E f \in 1..Len(frames) :
          /\ frames[f].video_chunk_id = 2
          /\ \E o \in ocr_texts : o.frame_id = f
          /\ \E r \in Rows(db_search("", "OCR", NoLimit, 0, {}, {}, {})) :
                r.frame_id = f /\ r.file_path = video_chunks[2].file_path
    /\ video_pc = "sleep"

\* C25: record_video calls insert_ocr_text only right after a successful
\* insert_frame, with the frame_id that insert returned and for the OcrFrame
\* that insert was made for; the frame has no OCR text at that moment, and
\* whatever the call answers the loop does not call it again for that frame.
\* So no frame ever has two OCR texts.
C25_OneOcrTextPerFrame ==
    [][/\ \A i \in 1..Len(calls') :
             calls'[i].op = "insert_ocr_text"
                => /\ video_pc = "insert_ocr_text" /\ video_pc' # "insert_ocr_text"
                   /\ calls'[i].frame_id = Len(frames) /\ Len(frames) > 0
                   /\ frames[calls'[i].frame_id].seq = calls'[i].seq
                   /\ \A o \in ocr_texts : o.frame_id # calls'[i].frame_id
       /\ (video_pc' = "insert_ocr_text" /\ video_pc # "insert_ocr_text")
             => /\ video_pc = "insert_frame"
                /\ calls'[1].op = "insert_frame" /\ calls'[1].ok
                /\ cur_frame_id' = Len(frames') /\ Len(frames') = Len(frames) + 1
                /\ frames'[cur_frame_id'].seq = cur_frame'.seq
       /\ \A f \in 1..Len(frames') :
             Cardinality({o \in ocr_texts' : o.frame_id = f}) <= 1
      ]_vars

\* insert_ocr_text has just succeeded for the second of two frames, and each
\* of the two has its one OCR text.
C25_Witness ==
    /\ calls # <<>> /\ calls[1].op = "insert_ocr_text" /\ calls[1].ok
    /\ calls[1].frame_id = 2
    /\ \A f \in 1..2 : Cardinality({o \in ocr_texts : o.frame_id = f}) = 1

\* C27: when insert_frame fails for the frame taken from the queue, the loop
\* keeps that frame to try it again: it still holds it, or the frame is back in
\* the queue.
C27_FailedFrameRetried ==
    [][\A i \in 1..Len(calls') :
          (calls'[i].op = "insert_frame" /\ ~calls'[i].ok)
             => \/ cur_frame'.seq = calls'[i].seq
                \/ \E k \in 1..Len(ocr_frame_queue') :
                      ocr_frame_queue'[k].seq = calls'[i].seq
      ]_vars

\* C28: when insert_ocr_text fails, the frame row stays and gets no OCR text:
\* the Store is as before, the loop is back at its flag test without the frame,
\* and an OCR text is only ever added for the frame inserted last, by the one
\* call made for it. Every OCR text belongs to a frame that has a row.
C28_FailedOcrTextSkipped ==
    [][/\ \A i \in 1..Len(calls') :
             (calls'[i].op = "insert_ocr_text" /\ ~calls'[i].ok)
                => /\ frames' = frames /\ ocr_texts' = ocr_texts
                   /\ calls'[i].frame_id \in 1..Len(frames)
                   /\ \A o \in ocr_texts' : o.frame_id # calls'[i].frame_id
                   /\ video_pc' = "top"
                   /\ cur_frame' = NoFrame
                   /\ ocr_frame_queue' = ocr_frame_queue
       /\ \A o \in ocr_texts' \ ocr_texts :
             /\ o.frame_id = Len(frames)
             /\ video_pc = "insert_ocr_text" /\ video_pc' = "sleep"
       /\ {o.frame_id : o \in ocr_texts'} \subseteq 1..Len(frames')
       /\ \A f \in 1..Len(frames) : Len(frames') >= f /\ frames'[f] = frames[f]
      ]_vars

\* insert_ocr_text has just failed for a frame while the next frame waits in
\* the queue: the frame has its row and no OCR text.
C28_Witness ==
    /\ calls # <<>> /\ calls[1].op = "insert_ocr_text" /\ ~calls[1].ok
    /\ Len(frames) = 1
    /\ ocr_texts = {}
    /\ ocr_frame_queue # <<>>
    /\ video_pc = "top"

\* Whether one queue is another with frames added at its back.
Extends(longer, shorter) ==
    /\ Len(longer) >= Len(shorter)
    /\ SubSeq(longer, 1, Len(shorter)) = shorter

\* C30: once record_video has left its loop it stays out of it, whatever
\* start_recording does to the flag afterwards: it takes no frame from the
\* queue and makes no Store call, so the frames and OCR texts stay as they are;
\* get_recording_status goes on answering with the flag, true after a start.
C30_NoResumeAfterExit ==
    [][video_pc = "done"
         => /\ video_pc' = "done"
            /\ Extends(ocr_frame_queue', ocr_frame_queue)
            /\ cur_frame' = cur_frame
            /\ frames' = frames /\ ocr_texts' = ocr_texts
            /\ \A i \in 1..Len(calls') :
                  calls'[i].op \notin {"insert_frame", "insert_ocr_text"}
            /\ resp'.req = "start_recording" => vision_control'
            /\ resp'.req = "get_recording_status" => resp'.is_running = vision_control'
      ]_vars

\* The loop has left after a stop; a start has set the flag again, and the
\* status request that followed was answered true.
C30_Witness ==
    /\ video_pc = "done"
    /\ vision_control
    /\ resp = RecordingStatus("get_recording_status", TRUE)
    /\ requests = 3

\* C26: the supervisor takes the commands in the order they were pushed: a
\* push adds at the back of the queue and a pop takes the front. A stop
\* processed after a start for the same device (the table still has the entry
\* the start made) leaves no worker of the device running, and a start
\* processed after a stop (the table has no entry) leaves one running, in
\* whichever passes of the supervisor the two are popped.
C26_CommandsInOrder ==
    [][/\ popped' # NoCmd
             => /\ audio_devices_control # <<>>
                /\ popped'.key = to_string(Head(audio_devices_control).device)
                /\ popped'.is_running = Head(audio_devices_control).control.is_running
                /\ audio_devices_control' = Tail(audio_devices_control)
       /\ (popped' = NoCmd /\ audio_devices_control' # audio_devices_control)
             => /\ Len(audio_devices_control') = Len(audio_devices_control) + 1
                /\ SubSeq(audio_devices_control', 1, Len(audio_devices_control))
                      = audio_devices_control
       /\ \A key \in DeviceKeys :
             /\ (PoppedStop(key)' /\ handles[key] # 0) => Running(key)' = {}
             /\ (PoppedStart(key)' /\ handles[key] = 0)
                   => /\ Running(key)' # {}
                      /\ handles'[key] \in Running(key)'
      ]_vars

\* The places in the control queue of the commands for a device.
PendingFor(key) ==
    {i \in 1..Len(audio_devices_control) :
        to_string(audio_devices_control[i].device) = key}

\* The latest command issued for a device is a stop: the last one waiting in
\* the queue, or with none waiting the one that emptied the device's table entry.
StopIssued(key) ==
    IF PendingFor(key) # {}
    THEN ~audio_devices_control[Latest(PendingFor(key))].control.is_running
    ELSE handles[key] = 0

\* C29: a worker that comes to a chunk boundary after a stop was issued for its
\* device finds its stop flag cleared when it enters record_and_transcribe.
C29_StopFlagCleared ==
    [][\A t \in 1..Len(tasks) :
          (tasks[t].state = "ready" /\ tasks'[t].state = "recording"
              /\ StopIssued(tasks[t].device))
             => ~tasks'[t].stop_flag
      ]_vars

\* C31: processing a command leaves both transcription channels as they are;
\* an input leaves its channel only by being transcribed into a result for the
\* same chunk, and a result taken from its channel that has a transcription and
\* no error is inserted, whether or not the device's worker was aborted and
\* its table entry removed in the meantime.
C31_HandedChunkStillInserted ==
    [][/\ popped' # NoCmd => (whisper_in' = whisper_in /\ whisper_out' = whisper_out)
       /\ (whisper_in # <<>> /\ whisper_in' = Tail(whisper_in))
             => /\ Len(whisper_out') = Len(whisper_out) + 1
                /\ whisper_out'[Len(whisper_out')].input = Head(whisper_in)
       /\ (whisper_out # <<>> /\ whisper_out' = Tail(whisper_out))
             => LET result == Head(whisper_out)
                IN  (~result.error /\ result.transcription # "none")
                       => /\ calls' # <<>>
                          /\ calls'[1].op = "insert_audio_chunk"
                          /\ calls'[1].file_path = result.input.path
                          /\ calls'[1].ok
                                => /\ Len(audio_chunks') = Len(audio_chunks) + 1
                                   /\ audio_chunks'[Len(audio_chunks')].file_path
                                         = result.input.path
      ]_vars

\* The chunk of a worker that was aborted by a stop, with the device's table
\* entry gone, has just been inserted.
C31_Witness ==
    /\ calls # <<>> /\ calls[1].op = "insert_audio_chunk" /\ calls[1].ok
    /\ handles[calls[1].file_path.device] = 0
    /\ \E t \in 1..Len(tasks) :
          /\ tasks[t].device = calls[1].file_path.device
          /\ tasks[t].state = "aborted"
    /\ Len(tasks) = 1
    /\ audio_chunks # <<>>

\* C32: with the supervisor scheduled fairly, a control queue holding k
\* commands comes to hold fewer: its front command is popped, and so in turn is
\* every command behind it. This is so whatever the recording flag is and
\* whether or not record_video has returned.
C32_CommandsEventuallyPopped ==
    \A k \in 1..MaxEvents :
        (Len(audio_devices_control) = k) ~> (Len(audio_devices_control) < k)

\* A command has just been popped after vision recording was stopped and
\* record_video had returned.
C32_Witness ==
    /\ popped # NoCmd
    /\ ~vision_control
    /\ video_pc = "done"
    /\ audio_devices_control = <<>>

\* C33: /search makes its two Store calls in separate steps, count_search_results
\* with the query string, the effective content type, the time bounds and the
\* app name that search was called with. A 200 response echoes the limit and
\* the offset of the request, its total is what count_search_results finds
\* when it is called, and its data, found by the earlier search call, is no
\* longer than the total: no row is removed in between, though rows may be added.
C33_PaginationAndTotal ==
    [][/\ (~searching.active /\ searching'.active)
             => LET q == searching'.query
                    c == calls'[1]
                IN  /\ Len(calls') = 1 /\ c.op = "search"
                    /\ c.query = (IF q.q = {} THEN "" ELSE CHOOSE x \in q.q : TRUE)
                    /\ c.content_type = (IF q.app_name # {} THEN "OCR" ELSE q.content_type)
                    /\ searching'.content_type = c.content_type
                    /\ c.limit = q.pagination.limit /\ c.offset = q.pagination.offset
                    /\ c.start_time = q.start_time /\ c.end_time = q.end_time
                    /\ c.app_name = q.app_name
       /\ (resp'.req = "search" /\ resp'.status = 200)
             => LET q == resp'.query
                    c == calls'[1]
                IN  /\ searching.active /\ searching.query = q
                    /\ Len(calls') = 1 /\ c.op = "count_search_results"
                    /\ c.query = (IF q.q = {} THEN "" ELSE CHOOSE x \in q.q : TRUE)
                    /\ c.content_type = searching.content_type
                    /\ c.start_time = q.start_time /\ c.end_time = q.end_time
                    /\ c.app_name = q.app_name
                    /\ resp'.pagination.limit = q.pagination.limit
                    /\ resp'.pagination.offset = q.pagination.offset
                    /\ resp'.pagination.total
                          = Cardinality(Results(c.query, c.content_type, c.start_time,
                                                c.end_time, c.app_name))
                    /\ Len(resp'.data) = Len(searching.results)
                    /\ Len(resp'.data) <= resp'.pagination.total
       /\ searching.active
             => /\ Extends(frames', frames)
                /\ Extends(video_chunks', video_chunks)
                /\ Extends(audio_chunks', audio_chunks)
                /\ ocr_texts \subseteq ocr_texts'
                /\ audio_transcriptions \subseteq audio_transcriptions'
      ]_vars

\* A request for the first page, with the default limit, is answered with
\* fewer items than its total: a matching row was inserted between the calls.
C33_Witness ==
    /\ resp.req = "search" /\ resp.status = 200
    /\ resp.pagination.limit = default_limit /\ resp.pagination.offset = 0
    /\ Len(resp.data) > 0
    /\ Len(resp.data) < resp.pagination.total

\* C34: when get_latest_timestamps fails, /health still answers 200, with both
\* timestamps absent: everything Loading before the loading threshold, and
\* after it both streams "No data" and the overall status Unhealthy, whatever
\* the Store holds.
C34_FailedReadIsNoData ==
    [][(resp'.req = "health_check" /\ ~calls'[1].ok)
          => /\ resp'.status = 200
             /\ resp'.body.last_frame_timestamp = {}
             /\ resp'.body.last_audio_timestamp = {}
             /\ now - app_start_time < loading_threshold
                   => /\ resp'.body.status = "Loading"
                      /\ resp'.body.frame_status = "Loading"
                      /\ resp'.body.audio_status = "Loading"
             /\ now - app_start_time >= loading_threshold
                   => /\ resp'.body.status = "Unhealthy"
                      /\ resp'.body.frame_status = "No data"
                      /\ resp'.body.audio_status = "No data"
      ]_vars

\* After the loading window the read fails while the Store holds a frame and a
\* transcription, and the answer is Unhealthy with no data on either stream.
C34_Witness ==
    /\ resp.req = "health_check" /\ ~calls[1].ok
    /\ resp.status = 200 /\ resp.body.status = "Unhealthy"
    /\ resp.body.frame_status = "No data" /\ resp.body.audio_status = "No data"
    /\ get_latest_timestamps.last_frame # {}
    /\ get_latest_timestamps.last_audio # {}

\* The requests of the handlers that only read.
ReadOnlyRequests ==
    {"search", "get_devices", "get_device_status", "get_recording_status", "health_check"}

\* C35: search (either of its two steps), get_devices, get_device_status,
\* get_recording_status and health_check leave the device-control queue, the
\* recording flag and the device table as they are, whatever they answer;
\* start_device and stop_device leave the recording flag as it is, and
\* start_recording and stop_recording leave the device-control queue as it is.
C35_HandlersKeepToTheirState ==
    [][/\ (resp'.req \in ReadOnlyRequests \/ searching' # searching)
             => /\ audio_devices_control' = audio_devices_control
                /\ vision_control' = vision_control
                /\ devices_status' = devices_status
       /\ resp'.req \in {"start_device", "stop_device"}
             => vision_control' = vision_control
       /\ resp'.req \in {"start_recording", "stop_recording"}
             => audio_devices_control' = audio_devices_control
      ]_vars

\* A read-only handler has answered while a command waits in the queue and
\* recording is off: both were set by earlier requests and are still so.
C35_Witness ==
    /\ resp.req \in ReadOnlyRequests /\ resp.status = 200
    /\ audio_devices_control # <<>>
    /\ ~vision_control

====
